---- MODULE Spec2Model ----
(***************************************************************************)
(* Jobly data-access layer: the partial-update helper sqlForPartialUpdate  *)
(* (helpers/sql.js) and the Company and Job models (models/company.js,     *)
(* models/job.js) over a relational store with the tables companies and    *)
(* jobs.                                                                   *)
(*                                                                         *)
(* A JavaScript object is a sequence of <<key, value>> pairs with distinct *)
(* keys, in the object's iteration order.  A SQL string is the sequence of *)
(* its lexical tokens.  SQL NULL and JavaScript null/undefined are the     *)
(* sentinels NullInt (numeric positions) and NullStr (string positions).   *)
(***************************************************************************)
EXTENDS Integers, Sequences, FiniteSets, TLC

VARIABLES companies, jobs, jobSeq, last, calls

vars == <<companies, jobs, jobSeq, last, calls>>

(***************************************************************************)
(* Bounds of the model.                                                    *)
(***************************************************************************)
\* longest field map handed to a bare sqlForPartialUpdate call
MaxLen == 3
\* longest field map handed to Company.update / Job.update
MaxFields == 2
\* last id the jobs sequence hands out
MaxJobId == 2
\* rows the store holds at most (companies and jobs together)
MaxRows == 3
\* largest employee bound handed to Company.findAll
MaxFilter == 1
\* concurrent calls of Company.create
MaxCalls == 2

(***************************************************************************)
(* Values.                                                                 *)
(***************************************************************************)
NullInt == -1
NullStr == "NULL"

Handles == {"c1", "c2"}
Names == {"C1", "C2"}
Descriptions == {"Desc1"}
NumEmployees == {NullInt, 1}
LogoUrls == {"http://c1.img"}
Titles == {"J1", "J2"}
Salaries == {NullInt, 1}
Equities == {"0.1"}
JobIds == 1..MaxJobId

\* the response slot before a call and after the caller has taken the response
Idle == [op |-> "none"]

(***************************************************************************)
(* helpers/sql.js                                                          *)
(***************************************************************************)
\* Object.keys / Object.values of an object given as <<key, value>> pairs
ObjectKeys(obj) == [i \in 1..Len(obj) |-> obj[i][1]]

ObjectValues(obj) == [i \in 1..Len(obj) |-> obj[i][2]]

\* jsToSql[colName] || colName : a missing, undefined or empty entry is falsy
ColumnForNoFallback(jsToSql, colName) ==
  IF colName \in DOMAIN jsToSql THEN jsToSql[colName] ELSE NullStr

ColumnFor(jsToSql, colName) ==
  IF colName \in DOMAIN jsToSql /\ jsToSql[colName] \notin {"", NullStr}
  THEN jsToSql[colName]
  ELSE colName

\* `"${jsToSql[colName] || colName}"=$${idx + 1}` (idx counts from 0)
ColFragmentBadIdx(jsToSql, colName, idx) ==
  <<"\"", ColumnFor(jsToSql, colName), "\"", "=", "$", ToString(idx)>>

ColFragment(jsToSql, colName, idx) ==
  <<"\"", ColumnFor(jsToSql, colName), "\"", "=", "$", ToString(idx + 1)>>

\* Array.prototype.join
RECURSIVE Join(_, _)
Join(parts, sep) ==
  IF Len(parts) = 0 THEN <<>>
  ELSE IF Len(parts) = 1 THEN parts[1]
  ELSE parts[1] \o <<sep>> \o Join(Tail(parts), sep)

sqlForPartialUpdateNoCheck(dataToUpdate, jsToSql) ==
  LET keys == ObjectKeys(dataToUpdate)
      cols == [i \in 1..Len(keys) |-> ColFragment(jsToSql, keys[i], i - 1)]
  IN [err |-> "", setCols |-> Join(cols, ", "), values |-> ObjectValues(dataToUpdate)]

sqlForPartialUpdate(dataToUpdate, jsToSql) ==
  LET keys == ObjectKeys(dataToUpdate)
      cols == [i \in 1..Len(keys) |-> ColFragment(jsToSql, keys[i], i - 1)]
  IN IF Len(keys) = 0
     THEN [err |-> "BadRequestError"]
     ELSE [err |-> "", setCols |-> Join(cols, ", "),
           values |-> ObjectValues(dataToUpdate)]

(***************************************************************************)
(* The store: what db.query does with the statements the models send.      *)
(***************************************************************************)
CompanyColumns == {"handle", "name", "description", "num_employees", "logo_url"}

JobColumns == {"id", "title", "salary", "equity", "company_handle"}

RowCount == Cardinality(companies) + Cardinality(jobs)

\* the pieces of a token string between the separator tokens
RECURSIVE SplitOn(_, _, _)
SplitOn(tokens, sep, piece) ==
  IF Len(tokens) = 0 THEN <<piece>>
  ELSE IF Head(tokens) = sep THEN <<piece>> \o SplitOn(Tail(tokens), sep, <<>>)
  ELSE SplitOn(Tail(tokens), sep, Append(piece, Head(tokens)))

\* the parameter a placeholder "$n" names; 0 when it names none
PlaceholderIndex(digits, params) ==
  IF \E i \in 1..Len(params) : ToString(i) = digits
  THEN CHOOSE i \in 1..Len(params) : ToString(i) = digits
  ELSE 0

\* the SET list of an UPDATE as <<[col, idx], ...>>; a malformed assignment
\* names no column
ParseSetClause(setCols, params) ==
  LET pieces == SplitOn(setCols, ", ", <<>>)
  IN [i \in 1..Len(pieces) |->
        IF Len(pieces[i]) = 6
        THEN [col |-> pieces[i][2], idx |-> PlaceholderIndex(pieces[i][6], params)]
        ELSE [col |-> "", idx |-> 0]]

RECURSIVE ApplySet(_, _, _)
ApplySet(row, assigns, params) ==
  IF Len(assigns) = 0 THEN row
  ELSE ApplySet([row EXCEPT ![Head(assigns).col] = params[Head(assigns).idx]],
                Tail(assigns), params)

SetClauseOk(assigns, columns) ==
  \A i \in 1..Len(assigns) : assigns[i].col \in columns /\ assigns[i].idx # 0

\* SELECT ... FROM companies WHERE handle = $1
SelectCompany(handle) == {r \in companies : r.handle = handle}

\* SELECT ... FROM jobs WHERE id = $1
SelectJob(id) == {r \in jobs : r.id = id}

\* RETURNING handle, name, description, num_employees AS "numEmployees", logo_url AS "logoUrl"
CompanyOutNoAlias(r) == r

CompanyOut(r) ==
  [handle |-> r.handle, name |-> r.name, description |-> r.description,
   numEmployees |-> r.num_employees, logoUrl |-> r.logo_url]

\* RETURNING id, title, salary, equity, company_handle AS "companyHandle"
JobOut(r) ==
  [id |-> r.id, title |-> r.title, salary |-> r.salary, equity |-> r.equity,
   companyHandle |-> r.company_handle]

\* the constraints of the schema: handle is the key of companies, id the key of
\* jobs, and company_handle of jobs references companies
HandleTaken(handle) == SelectCompany(handle) # {}

IdTaken(id) == SelectJob(id) # {}

Referenced(handle) == \E j \in jobs : j.company_handle = handle

\* what deleting a company does to the jobs that reference it: they are deleted
\* with it, or they block the delete
OnDeleteReferenced(handle) ==
  IF Referenced(handle)
  THEN {[err |-> "", jobs |-> {j \in jobs : j.company_handle # handle}],
        [err |-> "StorageError", jobs |-> jobs]}
  ELSE {[err |-> "", jobs |-> jobs]}

\* INSERT INTO companies ...
InsertCompanyOnConflictNothing(row) ==
  IF HandleTaken(row.handle)
  THEN [err |-> "", table |-> companies]
  ELSE [err |-> "", table |-> companies \cup {row}]

InsertCompany(row) ==
  IF HandleTaken(row.handle)
  THEN [err |-> "StorageError", table |-> companies]
  ELSE [err |-> "", table |-> companies \cup {row}]

\* INSERT INTO jobs ...
InsertJob(row) ==
  IF IdTaken(row.id) \/ ~HandleTaken(row.company_handle)
  THEN [err |-> "StorageError", table |-> jobs]
  ELSE [err |-> "", table |-> jobs \cup {row}]

\* UPDATE companies SET <setCols> WHERE handle = <whereIdx> RETURNING ...
UpdateCompanies(setCols, whereIdx, params) ==
  LET assigns == ParseSetClause(setCols, params)
      keyIdx == PlaceholderIndex(whereIdx, params)
      matched == SelectCompany(params[keyIdx])
  IN IF ~SetClauseOk(assigns, CompanyColumns) \/ keyIdx = 0
     THEN [err |-> "StorageError", rows |-> {}, table |-> companies]
     ELSE IF matched = {}
     THEN [err |-> "", rows |-> {}, table |-> companies]
     ELSE LET old == CHOOSE r \in matched : TRUE
              new == ApplySet(old, assigns, params)
          IN IF new.handle # old.handle
                /\ (HandleTaken(new.handle) \/ Referenced(old.handle))
             THEN [err |-> "StorageError", rows |-> {}, table |-> companies]
             ELSE [err |-> "", rows |-> {new},
                   table |-> (companies \ {old}) \cup {new}]

\* UPDATE jobs SET <setCols> WHERE id = <whereIdx> RETURNING ...
UpdateJobs(setCols, whereIdx, params) ==
  LET assigns == ParseSetClause(setCols, params)
      keyIdx == PlaceholderIndex(whereIdx, params)
      matched == SelectJob(params[keyIdx])
  IN IF ~SetClauseOk(assigns, JobColumns) \/ keyIdx = 0
     THEN [err |-> "StorageError", rows |-> {}, table |-> jobs]
     ELSE IF matched = {}
     THEN [err |-> "", rows |-> {}, table |-> jobs]
     ELSE LET old == CHOOSE r \in matched : TRUE
              new == ApplySet(old, assigns, params)
          IN IF (new.id # old.id /\ IdTaken(new.id))
                \/ ~HandleTaken(new.company_handle)
             THEN [err |-> "StorageError", rows |-> {}, table |-> jobs]
             ELSE [err |-> "", rows |-> {new}, table |-> (jobs \ {old}) \cup {new}]

(***************************************************************************)
(* What the WHERE clauses of findAll compute.                              *)
(***************************************************************************)
\* the characters of the strings that names, titles and filters are drawn from
Chars(s) ==
  CASE s = "C1" -> <<"C", "1">>
    [] s = "C2" -> <<"C", "2">>
    [] s = "J1" -> <<"J", "1">>
    [] s = "J2" -> <<"J", "2">>
    [] s = "c" -> <<"c">>
    [] s = "j" -> <<"j">>
    [] s = "1" -> <<"1">>
    [] s = "2" -> <<"2">>
    [] OTHER -> <<>>

Lower(ch) == CASE ch = "C" -> "c" [] ch = "J" -> "j" [] OTHER -> ch

LowerAll(cs) == [i \in 1..Len(cs) |-> Lower(cs[i])]

\* value ILIKE '%' || needle || '%'
ILikeContains(value, needle) ==
  LET v == LowerAll(Chars(value))
      n == LowerAll(Chars(needle))
  IN \E i \in 0..(Len(v) - Len(n)) : \A k \in 1..Len(n) : v[i + k] = n[k]

\* the collation order ORDER BY sorts by
Rank(s) ==
  CASE s = "C1" -> 1 [] s = "C2" -> 2 [] s = "J1" -> 3 [] s = "J2" -> 4 [] OTHER -> 0

\* the orders in which a query with ORDER BY <col> may return the rows
OrderedBy(rows, col) ==
  {sq \in [1..Cardinality(rows) -> rows] :
     /\ \A i, j \in 1..Cardinality(rows) : i # j => sq[i] # sq[j]
     /\ \A i, j \in 1..Cardinality(rows) : i < j => Rank(sq[i][col]) <= Rank(sq[j][col])}

\* the numeric value, in hundredths, of an equity string
EquityHundredths(e) == CASE e = "0.1" -> 10 [] e = "0" -> 0 [] OTHER -> 0

\* one rendered WHERE predicate, applied to a row; a comparison with NULL is not true
ClauseHolds(clause, qVal, row) ==
  CASE clause.op = "ILIKE" -> ILikeContains(row[clause.col], qVal[clause.idx])
    [] clause.op = ">=" -> row[clause.col] # NullInt /\ row[clause.col] >= qVal[clause.idx]
    [] clause.op = "<=" -> row[clause.col] # NullInt /\ row[clause.col] <= qVal[clause.idx]
    [] clause.op = "> 0" -> row[clause.col] # NullStr /\ EquityHundredths(row[clause.col]) > 0

WhereHolds(whereClauses, qVal, row) ==
  \A i \in 1..Len(whereClauses) : ClauseHolds(whereClauses[i], qVal, row)

\* JavaScript truthiness of a string and of a number
TruthyStr(s) == s \notin {NullStr, ""}

TruthyNum(n) == n \notin {NullInt, 0}

\* qVal.push(v); whereClauses.push(`<col> <op> $${qVal.length}`)
PushClause(acc, active, col, op, v) ==
  IF active
  THEN [qVal |-> Append(acc.qVal, v),
        whereClauses |-> Append(acc.whereClauses,
                                [col |-> col, op |-> op, idx |-> Len(acc.qVal) + 1])]
  ELSE acc

\* whereClauses.push(`equity > 0`)
PushBare(acc, active, col, op) ==
  IF active
  THEN [acc EXCEPT !.whereClauses = Append(@, [col |-> col, op |-> op, idx |-> 0])]
  ELSE acc

NoClauses == [qVal |-> <<>>, whereClauses |-> <<>>]

\* jobs j LEFT JOIN companies AS c ON c.handle = j.company_handle
CompanyNameOf(handle) ==
  IF SelectCompany(handle) = {} THEN NullStr
  ELSE (CHOOSE c \in SelectCompany(handle) : TRUE).name

JobWithCompanyName(r) ==
  [id |-> r.id, title |-> r.title, salary |-> r.salary, equity |-> r.equity,
   companyHandle |-> r.company_handle, companyName |-> CompanyNameOf(r.company_handle)]

(***************************************************************************)
(* models/company.js                                                       *)
(***************************************************************************)
\* minEmployees > maxEmployees, where a comparison with undefined is false
MinGreaterThanMaxOrEqual(minEmployees, maxEmployees) ==
  minEmployees # NullInt /\ maxEmployees # NullInt /\ minEmployees >= maxEmployees

MinGreaterThanMax(minEmployees, maxEmployees) ==
  minEmployees # NullInt /\ maxEmployees # NullInt /\ minEmployees > maxEmployees

\* if (duplicateCheck.rows[0])
FoundNever(rows) == FALSE

Found(rows) == rows # {}

CompanyCreate(data) ==
  /\ last.op = "none"
  /\ LET duplicateCheck == SelectCompany(data.handle)
         row == [handle |-> data.handle, name |-> data.name,
                 description |-> data.description,
                 num_employees |-> data.numEmployees, logo_url |-> data.logoUrl]
         result == InsertCompany(row)
     IN IF Found(duplicateCheck)
        THEN /\ last' = [op |-> "Company.create", data |-> data,
                         err |-> "BadRequestError", stmts |-> <<"SELECT">>]
             /\ UNCHANGED companies
        ELSE /\ RowCount < MaxRows
             /\ companies' = result.table
             /\ last' = IF result.err # ""
                        THEN [op |-> "Company.create", data |-> data,
                              err |-> result.err, stmts |-> <<"SELECT", "INSERT">>]
                        ELSE [op |-> "Company.create", data |-> data, err |-> "",
                              res |-> CompanyOut(row),
                              stmts |-> <<"SELECT", "INSERT">>]
  /\ UNCHANGED <<jobs, jobSeq, calls>>

CompanyFindAll(filters) ==
  /\ last.op = "none"
  /\ IF MinGreaterThanMax(filters.minEmployees, filters.maxEmployees)
     THEN last' = [op |-> "Company.findAll", filters |-> filters,
                   err |-> "BadRequestError", stmts |-> <<>>]
     ELSE LET q1 == PushClause(NoClauses, TruthyStr(filters.name),
                               "name", "ILIKE", filters.name)
              q2 == PushClause(q1, TruthyNum(filters.minEmployees),
                               "num_employees", ">=", filters.minEmployees)
              q3 == PushClause(q2, TruthyNum(filters.maxEmployees),
                               "num_employees", "<=", filters.maxEmployees)
              rows == {r \in companies : WhereHolds(q3.whereClauses, q3.qVal, r)}
          IN \E sq \in OrderedBy(rows, "name") :
               last' = [op |-> "Company.findAll", filters |-> filters, err |-> "",
                        res |-> [i \in 1..Len(sq) |-> CompanyOut(sq[i])],
                        stmts |-> <<"SELECT">>]
  /\ UNCHANGED <<companies, jobs, jobSeq, calls>>

\* a get is called by a caller that holds no response, or the response of a create
CanGet == last.op \in {"none", "Company.create", "Job.create"}

CompanyGet(handle) ==
  /\ CanGet
  /\ LET companyRes == SelectCompany(handle)
     IN last' = IF companyRes = {}
                THEN [op |-> "Company.get", key |-> handle, err |-> "NotFoundError",
                      stmts |-> <<"SELECT">>, prev |-> last]
                ELSE [op |-> "Company.get", key |-> handle, err |-> "",
                      res |-> CompanyOut(CHOOSE r \in companyRes : TRUE),
                      stmts |-> <<"SELECT">>, prev |-> last]
  /\ UNCHANGED <<companies, jobs, jobSeq, calls>>

\* the translation table Company.update passes
CompanyJsToSqlNoEmployees == [k \in {"logoUrl"} |-> "logo_url"]

CompanyJsToSql == [k \in {"numEmployees", "logoUrl"} |->
                     IF k = "numEmployees" THEN "num_employees" ELSE "logo_url"]

CompanyUpdate(handle, data) ==
  /\ last.op = "none"
  /\ LET built == sqlForPartialUpdate(data, CompanyJsToSql)
     IN IF built.err # ""
        THEN /\ last' = [op |-> "Company.update", key |-> handle, data |-> data,
                         err |-> built.err, stmts |-> <<>>]
             /\ UNCHANGED companies
        ELSE LET handleVarIdx == ToString(Len(built.values) + 1)
                 result == UpdateCompanies(built.setCols, handleVarIdx,
                                           Append(built.values, handle))
             IN /\ companies' = result.table
                /\ last' = IF result.err # ""
                           THEN [op |-> "Company.update", key |-> handle,
                                 data |-> data, err |-> result.err,
                                 stmts |-> <<"UPDATE">>]
                           ELSE IF result.rows = {}
                           THEN [op |-> "Company.update", key |-> handle,
                                 data |-> data, err |-> "NotFoundError",
                                 stmts |-> <<"UPDATE">>]
                           ELSE [op |-> "Company.update", key |-> handle,
                                 data |-> data, err |-> "",
                                 res |-> CompanyOut(CHOOSE r \in result.rows : TRUE),
                                 stmts |-> <<"UPDATE">>]
  /\ UNCHANGED <<jobs, jobSeq, calls>>

\* DELETE FROM companies WHERE handle = $1 RETURNING handle
DeleteCompany(handle) ==
  LET matched == SelectCompany(handle)
  IN IF matched = {}
     THEN {[err |-> "", rows |-> {}, table |-> companies, jobs |-> jobs]}
     ELSE {IF out.err # ""
           THEN [err |-> out.err, rows |-> {}, table |-> companies, jobs |-> jobs]
           ELSE [err |-> "", rows |-> matched, table |-> companies \ matched,
                 jobs |-> out.jobs] : out \in OnDeleteReferenced(handle)}

CompanyRemove(handle) ==
  /\ last.op = "none"
  /\ \E result \in DeleteCompany(handle) :
       /\ companies' = result.table
       /\ jobs' = result.jobs
       /\ last' = IF result.err # ""
                  THEN [op |-> "Company.remove", key |-> handle,
                        err |-> result.err, stmts |-> <<"DELETE">>]
                  ELSE IF result.rows = {}
                  THEN [op |-> "Company.remove", key |-> handle,
                        err |-> "NotFoundError", stmts |-> <<"DELETE">>]
                  ELSE [op |-> "Company.remove", key |-> handle, err |-> "",
                        stmts |-> <<"DELETE">>]
  /\ UNCHANGED <<jobSeq, calls>>

(***************************************************************************)
(* models/job.js                                                           *)
(***************************************************************************)
JobCreate(data) ==
  /\ last.op = "none"
  /\ jobSeq <= MaxJobId
  /\ LET row == [id |-> jobSeq, title |-> data.title, salary |-> data.salary,
                 equity |-> data.equity, company_handle |-> data.companyHandle]
         result == InsertJob(row)
     IN /\ result.err = "" => RowCount < MaxRows
        /\ jobs' = result.table
        /\ jobSeq' = jobSeq + 1
        /\ last' = IF result.err # ""
                   THEN [op |-> "Job.create", data |-> data, err |-> result.err,
                         stmts |-> <<"INSERT">>]
                   ELSE [op |-> "Job.create", data |-> data, err |-> "",
                         res |-> JobOut(row), stmts |-> <<"INSERT">>]
  /\ UNCHANGED <<companies, calls>>

JobFindAll(filters) ==
  /\ last.op = "none"
  /\ LET q1 == PushClause(NoClauses, TruthyStr(filters.title),
                          "title", "ILIKE", filters.title)
         q2 == PushClause(q1, TruthyNum(filters.minSalary),
                          "salary", ">=", filters.minSalary)
         q3 == PushBare(q2, filters.hasEquity, "equity", "> 0")
         rows == {r \in jobs : WhereHolds(q3.whereClauses, q3.qVal, r)}
     IN \E sq \in OrderedBy(rows, "title") :
          last' = [op |-> "Job.findAll", filters |-> filters, err |-> "",
                   res |-> [i \in 1..Len(sq) |-> JobWithCompanyName(sq[i])],
                   stmts |-> <<"SELECT">>]
  /\ UNCHANGED <<companies, jobs, jobSeq, calls>>

\* delete job.companyHandle; job.company = companiesRes.rows[0]
JobWithCompany(job, companiesRes) ==
  IF companiesRes = {}
  THEN [id |-> job.id, title |-> job.title, salary |-> job.salary,
        equity |-> job.equity]
  ELSE [id |-> job.id, title |-> job.title, salary |-> job.salary,
        equity |-> job.equity,
        company |-> CompanyOut(CHOOSE c \in companiesRes : TRUE)]

JobGet(id) ==
  /\ CanGet
  /\ LET jobRes == SelectJob(id)
     IN last' = IF jobRes = {}
                THEN [op |-> "Job.get", key |-> id, err |-> "NotFoundError",
                      stmts |-> <<"SELECT">>, prev |-> last]
                ELSE LET job == JobOut(CHOOSE r \in jobRes : TRUE)
                         companiesRes == SelectCompany(job.companyHandle)
                     IN [op |-> "Job.get", key |-> id, err |-> "",
                         res |-> JobWithCompany(job, companiesRes),
                         stmts |-> <<"SELECT", "SELECT">>, prev |-> last]
  /\ UNCHANGED <<companies, jobs, jobSeq, calls>>

\* the translation table Job.update passes: {}
JobJsToSql == <<>>

JobUpdate(id, data) ==
  /\ last.op = "none"
  /\ LET built == sqlForPartialUpdate(data, JobJsToSql)
     IN IF built.err # ""
        THEN /\ last' = [op |-> "Job.update", key |-> id, data |-> data,
                         err |-> built.err, stmts |-> <<>>]
             /\ UNCHANGED jobs
        ELSE LET idVarIdx == ToString(Len(built.values) + 1)
                 result == UpdateJobs(built.setCols, idVarIdx,
                                      Append(built.values, id))
             IN /\ jobs' = result.table
                /\ last' = IF result.err # ""
                           THEN [op |-> "Job.update", key |-> id, data |-> data,
                                 err |-> result.err, stmts |-> <<"UPDATE">>]
                           ELSE IF result.rows = {}
                           THEN [op |-> "Job.update", key |-> id, data |-> data,
                                 err |-> "NotFoundError", stmts |-> <<"UPDATE">>]
                           ELSE [op |-> "Job.update", key |-> id, data |-> data,
                                 err |-> "",
                                 res |-> JobOut(CHOOSE r \in result.rows : TRUE),
                                 stmts |-> <<"UPDATE">>]
  /\ UNCHANGED <<companies, jobSeq, calls>>

\* DELETE FROM jobs WHERE id = $1 RETURNING id
DeleteJobAny(id) == jobs

DeleteJob(id) == SelectJob(id)

JobRemove(id) ==
  /\ last.op = "none"
  /\ LET matched == DeleteJob(id)
     IN /\ jobs' = jobs \ matched
        /\ last' = IF matched = {}
                   THEN [op |-> "Job.remove", key |-> id, err |-> "NotFoundError",
                         stmts |-> <<"DELETE">>]
                   ELSE [op |-> "Job.remove", key |-> id, err |-> "",
                         stmts |-> <<"DELETE">>]
  /\ UNCHANGED <<companies, jobSeq, calls>>

(***************************************************************************)
(* The callers: a bare call of the helper, and the caller of a model       *)
(* method taking its response before it calls again.                       *)
(***************************************************************************)
Build(dataToUpdate, jsToSql) ==
  /\ last.op = "none"
  /\ LET built == sqlForPartialUpdate(dataToUpdate, jsToSql)
     IN last' = IF built.err # ""
                THEN [op |-> "sqlForPartialUpdate", data |-> dataToUpdate,
                      jsToSql |-> jsToSql, err |-> built.err]
                ELSE [op |-> "sqlForPartialUpdate", data |-> dataToUpdate,
                      jsToSql |-> jsToSql, err |-> "",
                      setCols |-> built.setCols, values |-> built.values]
  /\ UNCHANGED <<companies, jobs, jobSeq, calls>>

Return ==
  /\ last.op # "none"
  /\ last' = Idle
  /\ UNCHANGED <<companies, jobs, jobSeq, calls>>

(***************************************************************************)
(* Inputs.                                                                 *)
(***************************************************************************)
\* objects of at most maxLen of the given <<key, value>> pairs, keys distinct
Objects(pairs, maxLen) ==
  {m \in UNION {[1..n -> pairs] : n \in 0..maxLen} :
     \A i, j \in 1..Len(m) : i # j => m[i][1] # m[j][1]}

\* the same, the keys in the order of keyOrder only
Position(keyOrder, key) == CHOOSE i \in 1..Len(keyOrder) : keyOrder[i] = key

ObjectsInOrder(pairs, keyOrder, maxLen) ==
  {m \in UNION {[1..n -> pairs] : n \in 0..maxLen} :
     \A i, j \in 1..Len(m) :
        i < j => Position(keyOrder, m[i][1]) < Position(keyOrder, m[j][1])}

BuildPairs ==
  {<<"firstName", "John">>, <<"firstName", "Aliya">>, <<"lastName", "Doe">>,
   <<"age", "32">>}

BuildObjects == Objects(BuildPairs, MaxLen)

BuildTargets == {"first_name", "last_name", "", NullStr}

BuildTables ==
  UNION {[d -> BuildTargets] : d \in SUBSET {"firstName", "lastName"}}

CompanyData ==
  [handle : Handles, name : Names, description : Descriptions,
   numEmployees : NumEmployees, logoUrl : LogoUrls]

CompanyKeys == <<"handle", "name", "description", "numEmployees", "logoUrl">>

CompanyPairs ==
  ({"handle"} \X Handles) \cup ({"name"} \X Names)
    \cup ({"description"} \X Descriptions) \cup ({"numEmployees"} \X NumEmployees)
    \cup ({"logoUrl"} \X LogoUrls)

CompanyUpdates == ObjectsInOrder(CompanyPairs, CompanyKeys, MaxFields)

CompanyFilters ==
  [name : {NullStr, "2"}, minEmployees : {NullInt} \cup 0..MaxFilter,
   maxEmployees : {NullInt} \cup 0..MaxFilter]

JobData ==
  [title : Titles, salary : Salaries, equity : Equities, companyHandle : Handles]

JobKeys == <<"id", "title", "salary", "equity", "companyHandle">>

JobPairs ==
  ({"id"} \X JobIds) \cup ({"title"} \X Titles) \cup ({"salary"} \X Salaries)
    \cup ({"equity"} \X Equities) \cup ({"companyHandle"} \X Handles)

JobUpdates == ObjectsInOrder(JobPairs, JobKeys, MaxFields)

JobFilters ==
  [title : {NullStr, "2"}, minSalary : {NullInt} \cup 0..MaxFilter,
   hasEquity : BOOLEAN]

\* the ids a caller asks for: /jobs/0 names no job
AskedIds == 0..MaxJobId

(***************************************************************************)
(* Specifications.                                                         *)
(***************************************************************************)
Init ==
  /\ companies = {}
  /\ jobs = {}
  /\ jobSeq = 1
  /\ last = Idle
  /\ calls = <<>>

Next ==
  \/ \E data \in CompanyData : CompanyCreate(data)
  \/ \E filters \in CompanyFilters : CompanyFindAll(filters)
  \/ \E handle \in Handles : CompanyGet(handle)
  \/ \E handle \in Handles, data \in CompanyUpdates : CompanyUpdate(handle, data)
  \/ \E handle \in Handles : CompanyRemove(handle)
  \/ \E data \in JobData : JobCreate(data)
  \/ \E filters \in JobFilters : JobFindAll(filters)
  \/ \E id \in AskedIds : JobGet(id)
  \/ \E id \in AskedIds, data \in JobUpdates : JobUpdate(id, data)
  \/ \E id \in AskedIds : JobRemove(id)
  \/ Return

Spec == Init /\ [][Next]_vars

\* every caller of sqlForPartialUpdate, over the store the tests are seeded with:
\* bare calls with every field map and translation table, and the two updates
InitBuild ==
  /\ companies = {[handle |-> "c1", name |-> "C1", description |-> "Desc1",
                   num_employees |-> 1, logo_url |-> "http://c1.img"]}
  /\ jobs = {[id |-> 1, title |-> "J1", salary |-> 1, equity |-> "0.1",
              company_handle |-> "c1"]}
  /\ jobSeq = 2
  /\ last = Idle
  /\ calls = <<>>

NextBuild ==
  \/ \E dataToUpdate \in BuildObjects, jsToSql \in BuildTables :
       Build(dataToUpdate, jsToSql)
  \/ \E handle \in Handles, data \in CompanyUpdates : CompanyUpdate(handle, data)
  \/ \E id \in AskedIds, data \in JobUpdates : JobUpdate(id, data)
  \/ Return

SpecBuild == InitBuild /\ [][NextBuild]_vars

(***************************************************************************)
(* Concurrent calls of Company.create: each call is two awaited            *)
(* statements, and the statements of different calls interleave.           *)
(***************************************************************************)
Procs == 1..MaxCalls

\* const duplicateCheck = await db.query(SELECT ...); if (duplicateCheck.rows[0]) throw
CreateCheck(p) ==
  /\ calls[p].pc = "check"
  /\ LET duplicateCheck == SelectCompany(calls[p].data.handle)
     IN calls' = [calls EXCEPT ![p] =
                    IF Found(duplicateCheck)
                    THEN [@ EXCEPT !.pc = "done", !.err = "BadRequestError"]
                    ELSE [@ EXCEPT !.pc = "insert"]]
  /\ UNCHANGED <<companies, jobs, jobSeq, last>>

\* const result = await db.query(INSERT ...); return result.rows[0]
CreateInsert(p) ==
  /\ calls[p].pc = "insert"
  /\ LET data == calls[p].data
         row == [handle |-> data.handle, name |-> data.name,
                 description |-> data.description,
                 num_employees |-> data.numEmployees, logo_url |-> data.logoUrl]
         result == InsertCompany(row)
     IN /\ companies' = result.table
        /\ calls' = [calls EXCEPT ![p] =
                       [@ EXCEPT !.pc = "done", !.err = result.err,
                                 !.res = IF result.err = ""
                                         THEN <<CompanyOut(row)>> ELSE <<>>]]
  /\ UNCHANGED <<jobs, jobSeq, last>>

InitRace ==
  /\ companies = {}
  /\ jobs = {}
  /\ jobSeq = 1
  /\ last = Idle
  /\ calls \in [Procs -> [pc : {"check"}, data : CompanyData, err : {""},
                          res : {<<>>}]]

NextRace ==
  \/ \E p \in Procs : CreateCheck(p)
  \/ \E p \in Procs : CreateInsert(p)

SpecRace == InitRace /\ [][NextRace]_vars

(***************************************************************************)
(* Properties.                                                             *)
(***************************************************************************)
\* the assignments of a set clause, and the field names of an object
Assignments(setCols) == SplitOn(setCols, ", ", <<>>)

FieldsOf(obj) == {obj[i][1] : i \in 1..Len(obj)}

ValueOf(obj, field) == obj[CHOOSE i \in 1..Len(obj) : obj[i][1] = field][2]

BareCall == last.op = "sqlForPartialUpdate" /\ Len(last.data) > 0

\* C1: a bare call with a non-empty field map F returns a set clause of exactly
\* |F| assignments joined by ", ", the i-th with placeholder $i, and the value
\* list is F's values in F's order.
C1_SetClauseAndValues ==
  BareCall =>
    /\ last.err = ""
    /\ Len(Assignments(last.setCols)) = Len(last.data)
    /\ \A i \in 1..Len(last.data) :
         LET a == Assignments(last.setCols)[i]
         IN /\ Len(a) = 6
            /\ <<a[1], a[3], a[4], a[5]>> = <<"\"", "\"", "=", "$">>
            /\ a[6] = ToString(i)
    /\ Len(last.values) = Len(last.data)
    /\ \A i \in 1..Len(last.data) : last.values[i] = last.data[i][2]

C1_Witness ==
  /\ BareCall
  /\ last.err = ""
  /\ Len(last.data) = 3
  /\ Len(last.values) = 3

\* C2: an empty field set is rejected with BadRequestError: by a bare call with
\* any translation table, and by Company.update and Job.update before any
\* statement is issued, the store unchanged, whether or not the key exists.
C2_EmptyRejected ==
  [][/\ (last'.op = "sqlForPartialUpdate" /\ Len(last'.data) = 0)
          => last'.err = "BadRequestError"
     /\ (last'.op \in {"Company.update", "Job.update"} /\ Len(last'.data) = 0)
          => /\ last'.err = "BadRequestError"
             /\ last'.stmts = <<>>
             /\ UNCHANGED <<companies, jobs, jobSeq>>]_vars

C2_Witness ==
  /\ last.op = "Company.update"
  /\ Len(last.data) = 0
  /\ HandleTaken(last.key)
  /\ last.err = "BadRequestError"

\* C3: the column of key k's assignment is T[k] when T[k] is present and
\* non-empty, and k itself when T[k] is absent, undefined or empty; no error.
C3_TranslationFallback ==
  BareCall =>
    /\ last.err = ""
    /\ Len(Assignments(last.setCols)) = Len(last.data)
    /\ \A i \in 1..Len(last.data) :
         LET k == last.data[i][1]
             T == last.jsToSql
             a == Assignments(last.setCols)[i]
         IN /\ Len(a) = 6
            /\ IF k \in DOMAIN T /\ T[k] # "" /\ T[k] # NullStr
               THEN a[2] = T[k]
               ELSE a[2] = k

C3_Witness ==
  /\ BareCall
  /\ last.err = ""
  /\ FieldsOf(last.data) = {"firstName", "lastName", "age"}
  /\ DOMAIN last.jsToSql = {"firstName", "lastName"}
  /\ last.jsToSql["firstName"] = "first_name"
  /\ last.jsToSql["lastName"] = NullStr

\* C4: Company.findAll fails with BadRequestError exactly when both bounds are
\* given and minEmployees > maxEmployees, and then before any query is sent.
C4_RangeCheck ==
  last.op = "Company.findAll" =>
    LET a == last.filters.minEmployees
        b == last.filters.maxEmployees
    IN IF a # NullInt /\ b # NullInt /\ a > b
       THEN last.err = "BadRequestError" /\ last.stmts = <<>>
       ELSE last.err = ""

C4_Witness ==
  /\ last.op = "Company.findAll"
  /\ last.filters.minEmployees = 1
  /\ last.filters.maxEmployees = 0
  /\ last.err = "BadRequestError"

\* the step is a call of get, update or remove with a key that matches no record
CompanyKeyOps == {"Company.get", "Company.update", "Company.remove"}

JobKeyOps == {"Job.get", "Job.update", "Job.remove"}

MissingKeyCall ==
  \/ last'.op \in CompanyKeyOps /\ ~HandleTaken(last'.key)
  \/ last'.op \in JobKeyOps /\ ~IdTaken(last'.key)

\* the fields the update methods document as data: company.js:138, job.js:113
CompanyUpdatable == {"name", "description", "numEmployees", "logoUrl"}

JobUpdatable == {"title", "salary", "equity"}

UpdatableData ==
  /\ Len(last'.data) > 0
  /\ \/ last'.op = "Company.update" /\ FieldsOf(last'.data) \subseteq CompanyUpdatable
     \/ last'.op = "Job.update" /\ FieldsOf(last'.data) \subseteq JobUpdatable

\* C5 as stated: get, update and remove with a key that matches no record each
\* fail with NotFoundError and leave the store unchanged.
C5_Original ==
  [][MissingKeyCall =>
       last'.err = "NotFoundError" /\ UNCHANGED <<companies, jobs, jobSeq>>]_vars

\* C5 as amended: get and remove with a key that matches no record, and update
\* with such a key and a non-empty set of updatable fields, fail with
\* NotFoundError and leave the store unchanged.
C5_MissingKeyNotFound ==
  [][(MissingKeyCall /\ (last'.op \in {"Company.update", "Job.update"} => UpdatableData))
       => last'.err = "NotFoundError" /\ UNCHANGED <<companies, jobs, jobSeq>>]_vars

C5_Witness ==
  /\ last.op = "Job.update"
  /\ last.err = "NotFoundError"
  /\ jobs # {}
  /\ ~IdTaken(last.key)
  /\ FieldsOf(last.data) = {"title", "salary"}

\* C6: Company.get on an existing company returns a jobs field holding exactly
\* the jobs whose companyHandle is that handle.
C6_GetEmbedsJobs ==
  (last.op = "Company.get" /\ last.err = "") =>
    /\ "jobs" \in DOMAIN last.res
    /\ {last.res.jobs[i] : i \in 1..Len(last.res.jobs)}
         = {JobOut(j) : j \in {j \in jobs : j.company_handle = last.key}}

\* a get of the record that the call before it created from complete data
FetchedCompany ==
  /\ last.op = "Company.get" /\ last.err = ""
  /\ last.prev.op = "Company.create" /\ last.prev.err = ""
  /\ last.key = last.prev.data.handle
  /\ last.prev.data.numEmployees # NullInt

FetchedJob ==
  /\ last.op = "Job.get" /\ last.err = ""
  /\ last.prev.op = "Job.create" /\ last.prev.err = ""
  /\ last.key = last.prev.res.id
  /\ last.prev.data.salary # NullInt

SameField(res, data, field) == field \in DOMAIN res /\ res[field] = data[field]

C8_CreateDuplicateCheck ==
  [][last'.op = "Company.create" =>
       LET data == last'.data
       IN IF HandleTaken(data.handle)
          THEN /\ last'.err = "BadRequestError"
               /\ last'.stmts = <<"SELECT">>
               /\ UNCHANGED <<companies, jobs, jobSeq>>
          ELSE /\ last'.err = ""
               /\ last'.stmts = <<"SELECT", "INSERT">>
               /\ companies' =
                    companies \cup
                      {[handle |-> data.handle, name |-> data.name,
                        description |-> data.description,
                        num_employees |-> data.numEmployees,
                        logo_url |-> data.logoUrl]}
               /\ Cardinality(companies') = Cardinality(companies) + 1
               /\ last'.res = data
               /\ UNCHANGED <<jobs, jobSeq>>]_vars

C8_Witness ==
  /\ last.op = "Company.create"
  /\ last.err = "BadRequestError"
  /\ Cardinality(companies) = 2

\* C9: an update whose field set holds a key field (id or companyHandle of a
\* job, handle of a company) is rejected with BadRequestError and changes
\* nothing.
C9_KeyFieldsRejected ==
  [][(\/ last'.op = "Job.update" /\ IdTaken(last'.key)
           /\ FieldsOf(last'.data) \cap {"id", "companyHandle"} # {}
      \/ last'.op = "Company.update" /\ HandleTaken(last'.key)
           /\ "handle" \in FieldsOf(last'.data))
       => last'.err = "BadRequestError" /\ UNCHANGED <<companies, jobs>>]_vars

\* the column a field of the public naming is stored in
ColumnOfField(field) ==
  CASE field = "numEmployees" -> "num_employees"
    [] field = "logoUrl" -> "logo_url"
    [] OTHER -> field

\* the value the update leaves in a column of the row
Updated(old, data, field) ==
  IF field \in FieldsOf(data) THEN ValueOf(data, field) ELSE old[ColumnOfField(field)]

\* C10: update(key, F) with a non-empty F of updatable fields on an existing
\* record sets exactly the fields of F to the given values, leaves every other
\* attribute of the record (its key, and a job's companyHandle) and every other
\* record unchanged, and returns the full updated record.
C10_PartialUpdateFrame ==
  [][/\ (last'.op = "Company.update" /\ UpdatableData /\ HandleTaken(last'.key)) =>
          LET old == CHOOSE r \in companies : r.handle = last'.key
              new == [handle |-> old.handle,
                      name |-> Updated(old, last'.data, "name"),
                      description |-> Updated(old, last'.data, "description"),
                      numEmployees |-> Updated(old, last'.data, "numEmployees"),
                      logoUrl |-> Updated(old, last'.data, "logoUrl")]
          IN /\ last'.err = ""
             /\ last'.res = new
             /\ companies' =
                  (companies \ {old}) \cup
                    {[handle |-> new.handle, name |-> new.name,
                      description |-> new.description,
                      num_employees |-> new.numEmployees,
                      logo_url |-> new.logoUrl]}
             /\ UNCHANGED <<jobs, jobSeq>>
     /\ (last'.op = "Job.update" /\ UpdatableData /\ IdTaken(last'.key)) =>
          LET old == CHOOSE r \in jobs : r.id = last'.key
              new == [id |-> old.id,
                      title |-> Updated(old, last'.data, "title"),
                      salary |-> Updated(old, last'.data, "salary"),
                      equity |-> Updated(old, last'.data, "equity"),
                      companyHandle |-> old.company_handle]
          IN /\ last'.err = ""
             /\ last'.res = new
             /\ jobs' =
                  (jobs \ {old}) \cup
                    {[id |-> new.id, title |-> new.title, salary |-> new.salary,
                      equity |-> new.equity, company_handle |-> new.companyHandle]}
             /\ UNCHANGED <<companies, jobSeq>>]_vars

C10_Witness ==
  /\ last.op = "Job.update"
  /\ last.err = ""
  /\ FieldsOf(last.data) = {"title", "salary"}
  /\ Cardinality(jobs) = 2
  /\ last.res.title = "J2"
  /\ \E j \in jobs : j.id # last.key /\ j.title = "J1"

\* the predicate of each supplied filter, as the store evaluates it: a comparison
\* of an absent (NULL) column is not true
CompanySatisfies(filters, r) ==
  /\ filters.name # NullStr => ILikeContains(r.name, filters.name)
  /\ filters.minEmployees # NullInt =>
       r.num_employees # NullInt /\ r.num_employees >= filters.minEmployees
  /\ filters.maxEmployees # NullInt =>
       r.num_employees # NullInt /\ r.num_employees <= filters.maxEmployees

JobSatisfies(filters, r) ==
  /\ filters.title # NullStr => ILikeContains(r.title, filters.title)
  /\ filters.minSalary # NullInt => r.salary # NullInt /\ r.salary >= filters.minSalary
  /\ filters.hasEquity => r.equity # NullStr /\ EquityHundredths(r.equity) > 0

ResultSet(res) == {res[i] : i \in 1..Len(res)}

\* C11: findAll returns exactly the records that satisfy the conjunction of one
\* predicate per supplied filter, each record once, for every supplied numeric
\* value, 0 included, and for records whose salary or numEmployees is absent.
C11_FindAllExact ==
  /\ (last.op = "Company.findAll" /\ last.err = "") =>
       LET expected == {r \in companies : CompanySatisfies(last.filters, r)}
       IN /\ ResultSet(last.res) = {CompanyOut(r) : r \in expected}
          /\ Len(last.res) = Cardinality(expected)
  /\ last.op = "Job.findAll" =>
       LET expected == {r \in jobs : JobSatisfies(last.filters, r)}
       IN /\ ResultSet(last.res) = {JobWithCompanyName(r) : r \in expected}
          /\ Len(last.res) = Cardinality(expected)

\* the concurrent calls that name handle h, and those of them that returned
CallsFor(h) == {p \in Procs : calls[p].data.handle = h}

Created(h) == {p \in CallsFor(h) : calls[p].pc = "done" /\ calls[p].err = ""}

\* C12: under every interleaving of the statements of concurrent Company.create
\* calls, the store never holds two companies with one handle, at most one call
\* per handle returns a created record (the one the store holds), and every
\* other finished call has failed, with BadRequestError or a storage error.
C12_CreateRace ==
  \A h \in Handles :
    /\ Cardinality(SelectCompany(h)) <= 1
    /\ Cardinality(Created(h)) <= 1
    /\ \A p \in Created(h) :
         /\ calls[p].res = <<calls[p].data>>
         /\ SelectCompany(h) = {r \in companies : CompanyOut(r) = calls[p].data}
    /\ \A p \in CallsFor(h) \ Created(h) :
         calls[p].pc = "done" => calls[p].err \in {"BadRequestError", "StorageError"}

C12_Witness ==
  \E p, q \in Procs :
    /\ calls[p].data.handle = calls[q].data.handle
    /\ calls[p].data.name # calls[q].data.name
    /\ calls[p].pc = "done" /\ calls[p].err = ""
    /\ calls[q].pc = "done" /\ calls[q].err = "StorageError"

====
